---- MODULE Spec2Model ----
(***************************************************************************)
(* Token ledger of the Telegram content bot: the users, content,          *)
(* token_transactions and referrals tables of the SQLite database, the    *)
(* bot's /start, /redeem and unlock handlers with their in-memory rate    *)
(* limiter (main.py) and the admin toolkit's bulk token operation and     *)
(* inactive-account cleanup (adimn_tools.py).                              *)
(*                                                                         *)
(* Every handler invocation is a short sequential pipeline.  One step of  *)
(* the model is one SQLite transaction (an autocommit SELECT, or the      *)
(* statements up to a COMMIT) or one awaited call to the Telegram API.    *)
(* Steps of different invocations interleave: the database file is        *)
(* shared by the bot process and the admin toolkit process.               *)
(***************************************************************************)
EXTENDS Integers, Sequences, FiniteSets, TLC

\* ---------------------------------------------------------------- config.py
REFERRAL_BONUS == 2
LOYALTY_THRESHOLD == 10
LOYALTY_BONUS == 5
\* config.py 82: the ceiling for a user's tokens.
MAX_TOKENS_PER_USER == 1000
MAX_REQUESTS_PER_MINUTE == 30
MAX_REDEMPTIONS_PER_DAY == 50

\* ------------------------------------------------------------------ bounds
\* How many handler and toolkit invocations a behaviour may begin.
MaxOps == 2

\* Telegram user ids that send updates
UserIds == {1, 2}
\* content 1 is active, content 2 is inactive, content 3 does not exist
ContentIds == {1, 2}
UnlockArgs == {1, 2, 3}
Procs == {1, 2}
None == 0

VARIABLES
    users,       \* users table: id -> row
    content,     \* content table: id -> row
    token_transactions,  \* token_transactions table, in insertion order
    referrals,   \* referrals table, in insertion order
    req,         \* the bot's handler invocations: slot -> position and locals
    admin,       \* the admin toolkit's invocation: position and locals
    budget,      \* invocations that may still begin
    now,         \* the wall clock, in seconds
    user_requests,     \* RateLimiter: user -> times of the allowed requests
    user_redemptions   \* RateLimiter: user -> date -> redemptions counted

limiter == <<now, user_requests, user_redemptions>>

vars == <<users, content, token_transactions, referrals, req, admin, budget,
          now, user_requests, user_redemptions>>

\* ------------------------------------------------------------------- time
\* Seconds in a day: datetime.date and timedelta.seconds are both taken
\* from a clock that counts seconds.
Day == 86400

\* The clock at the start of a behaviour: the seeded accounts were last
\* active at time 0, more than the cleanup's 90 days earlier.
Start == 91 * Day

\* now.date()
Date(t) == t \div Day

\* ------------------------------------------------------------------ tables
NoRow == [exists |-> FALSE, tokens |-> 0, redemptions |-> 0,
          referral_by |-> None, is_active |-> FALSE, last_activity |-> 0]

\* Column defaults of the users table (database_setup, CREATE TABLE users).
SchemaDefaults == [tokens |-> 0, redemptions |-> 0, is_active |-> TRUE]

\* A row as INSERT INTO users (id, username, first_name, last_name,
\* referral_by) leaves it: the other columns take the schema's defaults,
\* last_activity the time of the insert.
NewUserRow(referral_by, at) ==
    [exists |-> TRUE, tokens |-> SchemaDefaults.tokens,
     redemptions |-> SchemaDefaults.redemptions,
     referral_by |-> referral_by, is_active |-> SchemaDefaults.is_active,
     last_activity |-> at]

Tx(user_id, amount, transaction_type, description, content_id) ==
    [user_id |-> user_id, amount |-> amount,
     transaction_type |-> transaction_type,
     description |-> description, content_id |-> content_id]

\* UPDATE users SET tokens = tokens + dt, redemptions = redemptions + dr
\* WHERE id = u: no row matches when the account does not exist.
UpdateUser(tbl, u, dt, dr) ==
    IF u \in DOMAIN tbl /\ tbl[u].exists
    THEN [tbl EXCEPT ![u].tokens = @ + dt, ![u].redemptions = @ + dr]
    ELSE tbl

RECURSIVE SumAmounts(_, _)
SumAmounts(log, u) ==
    IF log = <<>> THEN 0
    ELSE (IF Head(log).user_id = u THEN Head(log).amount ELSE 0)
         + SumAmounts(Tail(log), u)

TxOf(u, type) ==
    {i \in DOMAIN token_transactions :
        /\ token_transactions[i].user_id = u
        /\ token_transactions[i].transaction_type = type}

\* ------------------------------------------------------- handler invocations
Idle == [pc |-> "Idle", op |-> "none", user |-> None, content_id |-> None,
         tokens |-> 0, redemptions |-> 0, new_redemptions |-> 0,
         loyalty |-> FALSE, updated_tokens |-> 0, debited |-> FALSE,
         delivered |-> FALSE, args |-> [kind |-> "none", n |-> 0],
         referral_by |-> None, existing_user |-> FALSE]

Terminal == {"Idle", "Rejected", "Committed", "RefundCommitted",
             "TransactionFailed", "StartDone", "DatabaseError",
             "RateLimited", "Listed"}

AdminIdle == [pc |-> "Idle", operation |-> "none", amount |-> 0,
              user_filter |-> [k \in {} |-> 0], target_users |-> {},
              affected_count |-> 0, days |-> 0, inactive_users |-> {},
              inactive_count |-> 0]

\* context.args of /start: absent, "ref_<n>", or text int() rejects
StartArgs == {[kind |-> "none", n |-> 0], [kind |-> "malformed", n |-> 0]}
             \cup {[kind |-> "ref", n |-> n] : n \in UserIds}

\* arguments of bulk_token_operation
Operations == {"add", "subtract", "set", "multiply"}
Amounts == {-1, 1, 3}
EmptyFilter == [k \in {} |-> 0]
Filters == {EmptyFilter, [min_tokens |-> 1]}

\* argument of cleanup_inactive_users: its default
Days == {90}

\* ------------------------------------------------------------ initial state
\* An empty database, as database_setup creates it.
FreshUsers == [u \in UserIds |-> NoRow]

\* A database in which account 1 registered without a referrer at time 0
\* and has not sent /start since.
NewcomerUsers ==
    [u \in UserIds |->
        IF u = 1 THEN [NewUserRow(None, 0) EXCEPT !.tokens = 1] ELSE NoRow]

NewcomerLog ==
    <<Tx(1, 1, "welcome_bonus", <<"Welcome to the platform">>, None)>>

\* A database in which account 1 registered (welcome bonus), was credited 9
\* tokens by a bulk add and unlocked content 1 nine times, every delivery
\* succeeding: one redemption below the first loyalty milestone.
VeteranUsers ==
    [u \in UserIds |->
        IF u = 1 THEN [NewUserRow(None, 0) EXCEPT !.tokens = 1,
                                                  !.redemptions = LOYALTY_THRESHOLD - 1]
                 ELSE NoRow]

VeteranLog ==
    <<Tx(1, 1, "welcome_bonus", <<"Welcome to the platform">>, None),
      Tx(1, LOYALTY_THRESHOLD - 1, "bulk_add", <<"Bulk token addition by admin">>, None)>>
    \o [i \in 1..(LOYALTY_THRESHOLD - 1) |->
            Tx(1, -1, "redeem", <<"Unlocked", 1>>, 1)]

\* The tables of the three databases a behaviour may start from.
InitTables ==
    /\ \/ /\ users = FreshUsers
          /\ token_transactions = <<>>
          /\ content = [c \in ContentIds |-> [views |-> 0, is_active |-> (c = 1)]]
       \/ /\ users = NewcomerUsers
          /\ token_transactions = NewcomerLog
          /\ content = [c \in ContentIds |-> [views |-> 0, is_active |-> (c = 1)]]
       \/ /\ users = VeteranUsers
          /\ token_transactions = VeteranLog
          /\ content = [c \in ContentIds |->
                          [views |-> IF c = 1 THEN LOYALTY_THRESHOLD - 1 ELSE 0,
                           is_active |-> (c = 1)]]
    /\ referrals = <<>>

\* RateLimiter.__init__ (main.py 49-51): both maps empty.
NoRequests == [u \in UserIds |-> <<>>]
NoRedemptions == [u \in UserIds |-> [d \in {} |-> 0]]

Init ==
    /\ InitTables
    /\ req = [p \in Procs |-> Idle]
    /\ admin = AdminIdle
    /\ budget = MaxOps
    /\ now = Start
    /\ user_requests = NoRequests
    /\ user_redemptions = NoRedemptions

\* -------------------------------------------------------------- RateLimiter
\* timedelta.seconds: the seconds field of the difference, days left out.
Seconds(delta) == delta % Day

\* main.py 61-64: the list after "Clean old requests".
RecentRequests(times, at) ==
    SelectSeq(times, LAMBDA req_time : Seconds(at - req_time) < 60)

\* main.py 66-70: the verdict for action 'request' and the list it leaves.
RequestAllowed(times, at) ==
    Len(RecentRequests(times, at)) < MAX_REQUESTS_PER_MINUTE

RequestsAfter(times, at) ==
    IF RequestAllowed(times, at)
    THEN Append(RecentRequests(times, at), at)
    ELSE RecentRequests(times, at)

\* main.py 74-78: the counter under today's key, 0 when the key is new.
CountOn(counts, today) == IF today \in DOMAIN counts THEN counts[today] ELSE 0

\* A ceiling test that lets one call too many through.
RedemptionAllowsOneMore(counts, today) ==
    CountOn(counts, today) <= MAX_REDEMPTIONS_PER_DAY

\* main.py 80-84: the verdict for action 'redemption' and the map it leaves.
RedemptionAllowed(counts, today) ==
    CountOn(counts, today) < MAX_REDEMPTIONS_PER_DAY

RedemptionsAfter(counts, today) ==
    [d \in DOMAIN counts \cup {today} |->
        IF d = today
        THEN CountOn(counts, today)
             + (IF RedemptionAllowed(counts, today) THEN 1 ELSE 0)
        ELSE counts[d]]

\* The wall clock moves on to a later instant.
Tick(t) ==
    /\ t > now
    /\ now' = t
    /\ UNCHANGED <<users, content, token_transactions, referrals, req, admin,
                   budget, user_requests, user_redemptions>>

\* ----------------------------------------------------------- redeem_command
\* main.py 558-625: the daily limiter, then the balance and the content
\* list are read; nothing is written to the database.
RedeemCommand(p, u) ==
    /\ req[p].pc \in Terminal
    /\ budget > 0
    /\ budget' = budget - 1
    /\ LET user_data == users[u]
           r == [Idle EXCEPT !.op = "redeem", !.user = u]
       IN req' = [req EXCEPT ![p] =
            IF ~RedemptionAllowed(user_redemptions[u], Date(now))
            THEN [r EXCEPT !.pc = "RateLimited"]
            ELSE IF ~user_data.exists \/ user_data.tokens <= 0
            THEN [r EXCEPT !.pc = "Rejected"]
            ELSE [r EXCEPT !.pc = "Listed", !.tokens = user_data.tokens]]
    /\ user_redemptions' =
          [user_redemptions EXCEPT ![u] = RedemptionsAfter(@, Date(now))]
    /\ UNCHANGED <<users, content, token_transactions, referrals, admin,
                   now, user_requests>>

\* ------------------------------------------------------------ handle_unlock
\* A balance test that turns away only a negative balance.
InsufficientBelowZero(user_data) == ~user_data.exists \/ user_data.tokens < 0

\* main.py 1043: no users row, or no token left.
Insufficient(user_data) == ~user_data.exists \/ user_data.tokens <= 0

\* main.py 1051-1058: SELECT ... FROM content WHERE id = ? AND is_active.
Found(tbl, c) == c \in DOMAIN tbl /\ tbl[c].is_active

\* main.py 1036-1063: read the account and the content item, fail fast.
UnlockValidate(p, u, c) ==
    /\ req[p].pc \in Terminal
    /\ budget > 0
    /\ budget' = budget - 1
    /\ LET user_data == users[u]
           found == Found(content, c)
           r == [Idle EXCEPT !.op = "unlock", !.user = u, !.content_id = c]
       IN req' = [req EXCEPT ![p] =
            IF Insufficient(user_data)
            THEN [r EXCEPT !.pc = "Rejected", !.op = "InsufficientBalance"]
            ELSE IF ~found
            THEN [r EXCEPT !.pc = "Rejected", !.op = "ContentUnavailable"]
            ELSE [r EXCEPT !.pc = "Debiting",
                           !.tokens = user_data.tokens,
                           !.redemptions = user_data.redemptions]]
    /\ UNCHANGED <<users, content, token_transactions, referrals, admin, limiter>>

\* main.py 1081-1084: the milestone test on the count read at line 1040.
LoyaltyDue(new_redemptions) == new_redemptions % LOYALTY_THRESHOLD = 0

\* A debit that takes the token and leaves the redemption count alone.
DebitSkipsCount(tbl, u, loyalty) ==
    LET debited == UpdateUser(tbl, u, -1, 0)
    IN IF loyalty THEN UpdateUser(debited, u, LOYALTY_BONUS, 0) ELSE debited

\* main.py 1066-1092: the unlock transaction, BEGIN to COMMIT.
DebitUsers(tbl, u, loyalty) ==
    LET debited == UpdateUser(tbl, u, -1, 1)
    IN IF loyalty THEN UpdateUser(debited, u, LOYALTY_BONUS, 0) ELSE debited

DebitLog(log, u, c, new_redemptions, loyalty) ==
    LET redeemed == Append(log, Tx(u, -1, "redeem", <<"Unlocked", c>>, c))
    IN IF loyalty
       THEN Append(redeemed, Tx(u, LOYALTY_BONUS, "loyalty_bonus",
                                <<"Milestone reward", new_redemptions>>, None))
       ELSE redeemed

\* The SELECT of the updated balance (1094-1096) follows the COMMIT on the
\* same connection and is taken in the same step; when the account's row is
\* gone it returns no row, the subscript raises and the handler ends in the
\* outer except clause (1170-1172) with the transaction already committed.
UnlockDebit(p) ==
    /\ req[p].pc = "Debiting"
    /\ LET u == req[p].user
           c == req[p].content_id
           new_redemptions == req[p].redemptions + 1
           loyalty == LoyaltyDue(new_redemptions)
       IN /\ users' = DebitUsers(users, u, loyalty)
          /\ content' = [content EXCEPT ![c].views = @ + 1]
          /\ token_transactions' =
                DebitLog(token_transactions, u, c, new_redemptions, loyalty)
          /\ req' = [req EXCEPT ![p].pc = IF users[u].exists
                                         THEN "Delivering"
                                         ELSE "TransactionFailed",
                                ![p].debited = TRUE,
                                ![p].new_redemptions = new_redemptions,
                                ![p].loyalty = loyalty,
                                ![p].updated_tokens = users'[u].tokens]
    /\ UNCHANGED <<referrals, admin, budget, limiter>>

\* main.py 1170-1172: a storage fault before COMMIT; nothing is committed.
UnlockDebitFault(p) ==
    /\ req[p].pc = "Debiting"
    /\ req' = [req EXCEPT ![p].pc = "TransactionFailed"]
    /\ UNCHANGED <<users, content, token_transactions, referrals, admin, budget, limiter>>

\* main.py 1116-1137: send_video / send_photo / send_document.
Deliver(p) ==
    /\ req[p].pc = "Delivering"
    /\ \E sent \in BOOLEAN :
          req' = [req EXCEPT ![p].pc = IF sent THEN "Notifying" ELSE "Refunding",
                             ![p].delivered = sent]
    /\ UNCHANGED <<users, content, token_transactions, referrals, admin, budget, limiter>>

\* main.py 1139-1153: edit the status message and write the unlock log row;
\* an exception in either lands in the same except clause as a failed send.
Notify(p) ==
    /\ req[p].pc = "Notifying"
    /\ \E ok \in BOOLEAN :
          req' = [req EXCEPT ![p].pc = IF ok THEN "Committed" ELSE "Refunding"]
    /\ UNCHANGED <<users, content, token_transactions, referrals, admin, budget, limiter>>

\* A refund that credits the token and leaves the redemption count alone.
RefundKeepsCount(tbl, u) == UpdateUser(tbl, u, 1, 0)

\* main.py 1155-1165: the compensating refund.
RefundUsers(tbl, u) == UpdateUser(tbl, u, 1, -1)

\* A refund that also takes the user's loyalty records out of the log.
RefundDropsLoyalty(log, u, c) ==
    Append(SelectSeq(log, LAMBDA t : ~(t.user_id = u
                                       /\ t.transaction_type = "loyalty_bonus")),
           Tx(u, 1, "refund", <<"Failed to send content", c>>, None))

RefundLog(log, u, c) ==
    Append(log, Tx(u, 1, "refund", <<"Failed to send content", c>>, None))

Refund(p) ==
    /\ req[p].pc = "Refunding"
    /\ users' = RefundUsers(users, req[p].user)
    /\ token_transactions' =
          RefundLog(token_transactions, req[p].user, req[p].content_id)
    /\ req' = [req EXCEPT ![p].pc = "RefundCommitted"]
    /\ UNCHANGED <<content, referrals, admin, budget, limiter>>

\* main.py 1157-1172: the refund's own write raises (database locked, disk
\* full); the exception leaves the except clause and reaches the outer one.
RefundFault(p) ==
    /\ req[p].pc = "Refunding"
    /\ req' = [req EXCEPT ![p].pc = "TransactionFailed"]
    /\ UNCHANGED <<users, content, token_transactions, referrals, admin, budget, limiter>>

\* ------------------------------------------------------------ start_command
\* A parse that lets a user name itself as referrer.
ParseKeepsSelf(arg, user_id) == IF arg.kind = "ref" THEN arg.n ELSE None

\* main.py 204-214: the referrer named by the /start argument, if any.
ParseReferral(arg, user_id) ==
    IF arg.kind = "ref"
    THEN (IF arg.n = user_id THEN None ELSE arg.n)
    ELSE None

\* main.py 198-223: the request limiter, then parse the argument and look
\* the account up.
StartCheck(p, u, arg) ==
    /\ req[p].pc \in Terminal
    /\ budget > 0
    /\ budget' = budget - 1
    /\ req' = [req EXCEPT ![p] =
            IF ~RequestAllowed(user_requests[u], now)
            THEN [Idle EXCEPT !.pc = "RateLimited", !.op = "start", !.user = u]
            ELSE [Idle EXCEPT !.pc = "Creating", !.op = "start", !.user = u,
                              !.args = arg,
                              !.referral_by = ParseReferral(arg, u),
                              !.existing_user = users[u].exists]]
    /\ user_requests' = [user_requests EXCEPT ![u] = RequestsAfter(@, now)]
    /\ UNCHANGED <<users, content, token_transactions, referrals, admin,
                   now, user_redemptions>>

\* A referral block that credits the welcome amount instead of the bonus.
ReferralCreditsOne(tbl, referral_by) ==
    IF referral_by # None THEN UpdateUser(tbl, referral_by, 1, 0) ELSE tbl

\* main.py 233-255: the referral block of account creation.
ReferralUsers(tbl, referral_by) ==
    IF referral_by # None THEN UpdateUser(tbl, referral_by, REFERRAL_BONUS, 0)
    ELSE tbl

ReferralRows(rows, referral_by, u) ==
    IF referral_by # None
    THEN Append(rows, [referrer_id |-> referral_by, referred_id |-> u,
                       bonus_amount |-> REFERRAL_BONUS])
    ELSE rows

ReferralLog(log, referral_by, u) ==
    IF referral_by # None
    THEN Append(log, Tx(referral_by, REFERRAL_BONUS, "referral_bonus",
                        <<"Referred user", u>>, None))
    ELSE log

\* main.py 257-266: the welcome bonus.
WelcomeUsers(tbl, u) == UpdateUser(tbl, u, 1, 0)

WelcomeLog(log, u) ==
    Append(log, Tx(u, 1, "welcome_bonus", <<"Welcome to the platform">>, None))

\* A /start that runs the creation's referral and welcome blocks whether or
\* not the account exists.
StartCommitAgain(p) ==
    /\ req[p].pc = "Creating"
    /\ LET u == req[p].user
           referral_by == req[p].referral_by
           inserted == IF users[u].exists THEN users
                       ELSE [users EXCEPT ![u] = NewUserRow(referral_by, now)]
       IN /\ users' = WelcomeUsers(ReferralUsers(inserted, referral_by), u)
          /\ referrals' = ReferralRows(referrals, referral_by, u)
          /\ token_transactions' =
                WelcomeLog(ReferralLog(token_transactions, referral_by, u), u)
          /\ req' = [req EXCEPT ![p].pc = "StartDone"]
    /\ UNCHANGED <<content, admin, budget, limiter>>

\* main.py 225-283: the write transaction of /start, up to conn.commit().
StartCommit(p) ==
    /\ req[p].pc = "Creating"
    /\ LET u == req[p].user
           referral_by == req[p].referral_by
           inserted == [users EXCEPT ![u] = NewUserRow(referral_by, now)]
       IN IF req[p].existing_user
          THEN \* returning user: only last_activity is touched; the
               \* UPDATE matches no row when the account is gone
               /\ users' = IF users[u].exists
                           THEN [users EXCEPT ![u].last_activity = now]
                           ELSE users
               /\ req' = [req EXCEPT ![p].pc = "StartDone"]
               /\ UNCHANGED <<token_transactions, referrals>>
          ELSE IF users[u].exists
          THEN \* the id was inserted meanwhile: the INSERT raises
               /\ req' = [req EXCEPT ![p].pc = "DatabaseError"]
               /\ UNCHANGED <<users, token_transactions, referrals>>
          ELSE /\ users' = WelcomeUsers(ReferralUsers(inserted, referral_by), u)
               /\ referrals' = ReferralRows(referrals, referral_by, u)
               /\ token_transactions' =
                     WelcomeLog(ReferralLog(token_transactions, referral_by, u), u)
               /\ req' = [req EXCEPT ![p].pc = "StartDone"]
    /\ UNCHANGED <<content, admin, budget, limiter>>

\* main.py 285-288: a storage fault before conn.commit(); nothing is committed.
StartFault(p) ==
    /\ req[p].pc = "Creating"
    /\ req' = [req EXCEPT ![p].pc = "DatabaseError"]
    /\ UNCHANGED <<users, content, token_transactions, referrals, admin, budget, limiter>>

\* ----------------------------------------------------- bulk_token_operation
\* adimn_tools.py 473-491: the target set.
Matches(row, filter) ==
    /\ row.exists
    /\ row.is_active
    /\ ("min_tokens" \in DOMAIN filter => row.tokens >= filter.min_tokens)
    /\ ("max_tokens" \in DOMAIN filter => row.tokens <= filter.max_tokens)
    /\ ("min_redemptions" \in DOMAIN filter =>
            row.redemptions >= filter.min_redemptions)

BulkSelect(operation, amount, filter) ==
    /\ admin.pc \in {"Idle", "Done"}
    /\ budget > 0
    /\ budget' = budget - 1
    /\ admin' = [AdminIdle EXCEPT
                    !.pc = "Applying", !.operation = operation,
                    !.amount = amount, !.user_filter = filter,
                    !.target_users = {u \in UserIds : Matches(users[u], filter)}]
    /\ UNCHANGED <<users, content, token_transactions, referrals, req, limiter>>

Max(a, b) == IF a >= b THEN a ELSE b

\* adimn_tools.py 498-517: the UPDATE of one account.
BulkTokens(operation, amount, tokens) ==
    CASE operation = "add" -> tokens + amount
      [] operation = "subtract" -> Max(0, tokens - amount)
      [] operation = "set" -> amount
      [] OTHER -> tokens

\* adimn_tools.py 500-517: the amount column of the row logged for it.
BulkLogged(operation, amount, tokens) ==
    CASE operation = "subtract" -> -amount
      [] OTHER -> amount

BulkType(operation) ==
    CASE operation = "add" -> "bulk_add"
      [] operation = "subtract" -> "bulk_subtract"
      [] OTHER -> "bulk_set"

BulkUser(tbl, u, operation, amount) ==
    IF u \in DOMAIN tbl /\ tbl[u].exists
    THEN [tbl EXCEPT ![u].tokens = BulkTokens(operation, amount, @)]
    ELSE tbl

BulkLog(log, tbl, u, operation, amount) ==
    IF operation \in {"add", "subtract", "set"}
    THEN Append(log, Tx(u, BulkLogged(operation, amount, tbl[u].tokens),
                        BulkType(operation), <<"Bulk", operation, amount>>, None))
    ELSE log

\* adimn_tools.py 495-519: the loop over the target accounts, in id order.
RECURSIVE BulkLoop(_, _, _, _)
BulkLoop(state, targets, operation, amount) ==
    IF targets = {} THEN state
    ELSE LET u == CHOOSE x \in targets : \A y \in targets : x <= y
         IN BulkLoop([tbl |-> BulkUser(state.tbl, u, operation, amount),
                      log |-> BulkLog(state.log, state.tbl, u, operation, amount),
                      n |-> state.n + 1],
                     targets \ {u}, operation, amount)

\* adimn_tools.py 493-525: apply, commit, return the count.
BulkApply ==
    /\ admin.pc = "Applying"
    /\ LET done == BulkLoop([tbl |-> users, log |-> token_transactions, n |-> 0],
                            admin.target_users, admin.operation, admin.amount)
       IN /\ users' = done.tbl
          /\ token_transactions' = done.log
          /\ admin' = [admin EXCEPT !.pc = "Done", !.affected_count = done.n]
    /\ UNCHANGED <<content, referrals, req, budget, limiter>>

\* adimn_tools.py 527-530: a storage fault; close without commit, return 0.
BulkFault ==
    /\ admin.pc = "Applying"
    /\ admin' = [admin EXCEPT !.pc = "Done", !.affected_count = 0]
    /\ UNCHANGED <<users, content, token_transactions, referrals, req, budget, limiter>>

\* --------------------------------------------------- cleanup_inactive_users
\* adimn_tools.py 426-431 and 446-451: the WHERE clause of the SELECT and of
\* the DELETE FROM users.
Inactive(row, days, at) ==
    /\ row.exists
    /\ row.last_activity < at - days * Day
    /\ row.tokens = 0
    /\ row.redemptions = 0

\* adimn_tools.py 426-434: find the inactive accounts.
CleanupSelect(days) ==
    /\ admin.pc \in {"Idle", "Done"}
    /\ budget > 0
    /\ budget' = budget - 1
    /\ LET inactive_users == {u \in UserIds : Inactive(users[u], days, now)}
       IN admin' = [AdminIdle EXCEPT
                       !.pc = "Deleting", !.operation = "cleanup",
                       !.days = days, !.inactive_users = inactive_users,
                       !.inactive_count = Cardinality(inactive_users)]
    /\ UNCHANGED <<users, content, token_transactions, referrals, req, limiter>>

\* adimn_tools.py 436-443: the related rows of the accounts found.
CleanupRows(rows, inactive_users) ==
    SelectSeq(rows, LAMBDA r : /\ r.referrer_id \notin inactive_users
                               /\ r.referred_id \notin inactive_users)

CleanupLog(log, inactive_users) ==
    SelectSeq(log, LAMBDA t : t.user_id \notin inactive_users)

\* adimn_tools.py 445-451: every account the WHERE clause matches now.
CleanupUsers(tbl, days, at) ==
    [u \in UserIds |-> IF Inactive(tbl[u], days, at) THEN NoRow ELSE tbl[u]]

\* adimn_tools.py 436-457: delete, commit, return the count of the SELECT.
CleanupApply ==
    /\ admin.pc = "Deleting"
    /\ IF admin.inactive_count > 0
       THEN /\ referrals' = CleanupRows(referrals, admin.inactive_users)
            /\ token_transactions' =
                  CleanupLog(token_transactions, admin.inactive_users)
            /\ users' = CleanupUsers(users, admin.days, now)
       ELSE UNCHANGED <<users, token_transactions, referrals>>
    /\ admin' = [admin EXCEPT !.pc = "Done",
                               !.affected_count = admin.inactive_count]
    /\ UNCHANGED <<content, req, budget, limiter>>

\* adimn_tools.py 459-462: a storage fault; close without commit, return 0.
CleanupFault ==
    /\ admin.pc = "Deleting"
    /\ admin' = [admin EXCEPT !.pc = "Done", !.affected_count = 0]
    /\ UNCHANGED <<users, content, token_transactions, referrals, req, budget,
                   limiter>>

Next ==
    \/ \E p \in Procs, u \in UserIds, arg \in StartArgs : StartCheck(p, u, arg)
    \/ \E p \in Procs : StartCommit(p)
    \/ \E p \in Procs : StartFault(p)
    \/ \E operation \in Operations, amount \in Amounts, filter \in Filters :
          BulkSelect(operation, amount, filter)
    \/ BulkApply
    \/ BulkFault
    \/ \E days \in Days : CleanupSelect(days)
    \/ CleanupApply
    \/ CleanupFault
    \/ \E p \in Procs, u \in UserIds : RedeemCommand(p, u)
    \/ \E p \in Procs, u \in UserIds, c \in UnlockArgs : UnlockValidate(p, u, c)
    \/ \E p \in Procs : UnlockDebit(p)
    \/ \E p \in Procs : UnlockDebitFault(p)
    \/ \E p \in Procs : Deliver(p)
    \/ \E p \in Procs : Notify(p)
    \/ \E p \in Procs : Refund(p)
    \/ \E p \in Procs : RefundFault(p)

Spec == Init /\ [][Next]_vars

\* The Application is built without concurrent_updates (main.py 94): the bot
\* finishes one update before it takes the next, so its handlers use one
\* slot; the admin toolkit still runs beside it as a process of its own.
SeqNext ==
    \/ \E u \in UserIds, arg \in StartArgs : StartCheck(1, u, arg)
    \/ StartCommit(1)
    \/ StartFault(1)
    \/ \E operation \in Operations, amount \in Amounts, filter \in Filters :
          BulkSelect(operation, amount, filter)
    \/ BulkApply
    \/ BulkFault
    \/ \E days \in Days : CleanupSelect(days)
    \/ CleanupApply
    \/ CleanupFault
    \/ \E u \in UserIds : RedeemCommand(1, u)
    \/ \E u \in UserIds, c \in UnlockArgs : UnlockValidate(1, u, c)
    \/ UnlockDebit(1)
    \/ UnlockDebitFault(1)
    \/ Deliver(1)
    \/ Notify(1)
    \/ Refund(1)
    \/ RefundFault(1)

SeqSpec == Init /\ [][SeqNext]_vars

\* ---------------------------------------------------- the limiter over time
\* The limiter after account 1 sent one request fewer than the ceiling at
\* time Start, and after it opened /redeem one time fewer than the ceiling
\* on the day of Start.
BusyRequests ==
    [u \in UserIds |->
        IF u = 1 THEN [i \in 1..(MAX_REQUESTS_PER_MINUTE - 1) |-> Start]
        ELSE <<>>]

BusyRedemptions ==
    [u \in UserIds |->
        IF u = 1 THEN [d \in {Date(Start)} |-> MAX_REDEMPTIONS_PER_DAY - 1]
        ELSE [d \in {} |-> 0]]

\* Later readings of the clock: within the minute, at its end, and a day
\* and a second on.
Instants == {Start + 59, Start + 60, Start + Day + 1}

RateInit ==
    /\ users = NewcomerUsers
    /\ token_transactions = NewcomerLog
    /\ content = [c \in ContentIds |-> [views |-> 0, is_active |-> (c = 1)]]
    /\ referrals = <<>>
    /\ req = [p \in Procs |-> Idle]
    /\ admin = AdminIdle
    /\ budget = MaxOps
    /\ now = Start
    /\ user_requests \in {NoRequests, BusyRequests}
    /\ user_redemptions \in {NoRedemptions, BusyRedemptions}

\* The bot process alone, its handlers one after the other, while the clock
\* runs: the limiter lives in the bot's memory.
RateNext ==
    \/ \E t \in Instants : Tick(t)
    \/ \E u \in UserIds, arg \in StartArgs : StartCheck(1, u, arg)
    \/ StartCommit(1)
    \/ StartFault(1)
    \/ \E u \in UserIds : RedeemCommand(1, u)
    \/ \E u \in UserIds, c \in UnlockArgs : UnlockValidate(1, u, c)
    \/ UnlockDebit(1)
    \/ UnlockDebitFault(1)
    \/ Deliver(1)
    \/ Notify(1)
    \/ Refund(1)
    \/ RefundFault(1)

RateSpec == RateInit /\ [][RateNext]_vars

\* ------------------------------------------------------ one invocation more
\* The Newcomer database, with one invocation more than MaxOps to begin.
LongInit ==
    /\ users = NewcomerUsers
    /\ token_transactions = NewcomerLog
    /\ content = [c \in ContentIds |-> [views |-> 0, is_active |-> (c = 1)]]
    /\ referrals = <<>>
    /\ req = [p \in Procs |-> Idle]
    /\ admin = AdminIdle
    /\ budget = MaxOps + 1
    /\ now = Start
    /\ user_requests = NoRequests
    /\ user_redemptions = NoRedemptions

LongSpec == LongInit /\ [][SeqNext]_vars

\* A database in which account 1 registered (welcome bonus) and was credited
\* by a bulk add up to the ceiling of config.py 82.
CappedUsers ==
    [u \in UserIds |->
        IF u = 1 THEN [NewUserRow(None, 0) EXCEPT !.tokens = MAX_TOKENS_PER_USER]
                 ELSE NoRow]

CappedLog ==
    <<Tx(1, 1, "welcome_bonus", <<"Welcome to the platform">>, None),
      Tx(1, MAX_TOKENS_PER_USER - 1, "bulk_add",
         <<"Bulk token addition by admin">>, None)>>

\* The bot and the toolkit, one handler at a time, started from any of the
\* three databases or from the one with an account at the ceiling.
CapInit ==
    /\ \/ InitTables
       \/ /\ users = CappedUsers
          /\ token_transactions = CappedLog
          /\ content = [c \in ContentIds |-> [views |-> 0, is_active |-> (c = 1)]]
          /\ referrals = <<>>
    /\ req = [p \in Procs |-> Idle]
    /\ admin = AdminIdle
    /\ budget = MaxOps
    /\ now = Start
    /\ user_requests = NoRequests
    /\ user_redemptions = NoRedemptions

CapSpec == CapInit /\ [][SeqNext]_vars

\* ================================================================== claims
Last(log) == log[Len(log)]

Balanced(u) == users[u].tokens = SumAmounts(token_transactions, u)

\* C1: for every existing account the stored tokens value equals the signed
\* sum of the amounts of that user's transaction records, in every committed
\* state.
C1_LedgerConsistent ==
    \A u \in UserIds : users[u].exists => Balanced(u)

\* C2: every account's tokens value is >= 0 in every reachable state, for
\* any integer amount given to a bulk operation.
C2_TokensNonNegative ==
    \A u \in UserIds : users[u].exists => users[u].tokens >= 0

\* C3: of two unlock invocations for one user that both read tokens = 1
\* (neither crossing a loyalty milestone), at most one commits its debit.
C3_ExactlyOneRedeems ==
    \A p, q \in Procs :
        (/\ p # q
         /\ req[p].op = "unlock" /\ req[q].op = "unlock"
         /\ req[p].user = req[q].user
         /\ req[p].tokens = 1 /\ req[q].tokens = 1
         /\ ~req[p].loyalty /\ ~req[q].loyalty)
        => ~(req[p].debited /\ req[q].debited)

\* The case of C4: the only invocation begun is an unlock that was debited
\* and then refunded.
RefundedAlone(p) == req[p].pc = "RefundCommitted" /\ budget = MaxOps - 1

RefundLogged(p) ==
    /\ token_transactions # <<>>
    /\ Last(token_transactions).user_id = req[p].user
    /\ Last(token_transactions).transaction_type = "refund"
    /\ Last(token_transactions).amount = 1

\* C4 as stated: after the compensation tokens and redemptions equal the
\* values read before the redemption started, a refund transaction has been
\* appended and the ledger sum still holds, for every starting count.
C4_RefundRestoresExactly ==
    \A p \in Procs : RefundedAlone(p) =>
        /\ users[req[p].user].tokens = req[p].tokens
        /\ users[req[p].user].redemptions = req[p].redemptions
        /\ RefundLogged(p)
        /\ Balanced(req[p].user)

\* C4 as amended: with no other operation in between, after the
\* compensation redemptions equals its value before the redemption, a refund
\* transaction has been appended, the ledger sum still holds, and tokens
\* equals its value before the redemption, plus LOYALTY_BONUS when the debit
\* granted a loyalty bonus (the bonus is not reversed).
C4_RefundRestoresUpToLoyalty ==
    \A p \in Procs : RefundedAlone(p) =>
        /\ users[req[p].user].tokens =
              req[p].tokens + (IF req[p].loyalty THEN LOYALTY_BONUS ELSE 0)
        /\ users[req[p].user].redemptions = req[p].redemptions
        /\ RefundLogged(p)
        /\ Balanced(req[p].user)

\* Witness of C4: a redemption one below a milestone was debited, granted
\* the bonus, and was refunded.
C4_RefundedAtMilestone ==
    \E p \in Procs : RefundedAlone(p) /\ req[p].loyalty

\* C5: for every user and every multiple m of LOYALTY_THRESHOLD at most one
\* loyalty_bonus transaction is ever appended for redemption count m, also
\* when a redeem is refunded and repeated.
C5_LoyaltyOncePerMilestone ==
    \A u \in UserIds :
        \A i, j \in TxOf(u, "loyalty_bonus") :
            token_transactions[i].description = token_transactions[j].description
            => i = j

\* C6: every redemption whose debit committed ends Committed or
\* RefundCommitted; no invocation ends debited, undelivered and unrefunded.
C6_DebitedEndsDeliveredOrRefunded ==
    \A p \in Procs :
        (req[p].pc \in Terminal /\ req[p].debited)
        => req[p].pc \in {"Committed", "RefundCommitted"}

\* The step in which invocation p creates its account.
Creates(p) ==
    /\ req[p].pc = "Creating"
    /\ req'[p].pc = "StartDone"
    /\ ~req[p].existing_user

\* C7: when an account is created with a referrer id that names no existing
\* account, no referral record is inserted, no referral_bonus transaction is
\* appended, the account is created with its welcome bonus, and its
\* referral_by is empty.
C7_UnknownReferrerSkipped ==
    [][\A p \in Procs :
         (/\ Creates(p)
          /\ req[p].args.kind = "ref"
          /\ req[p].args.n # req[p].user
          /\ ~users[req[p].args.n].exists)
         => /\ referrals' = referrals
            /\ token_transactions' = WelcomeLog(token_transactions, req[p].user)
            /\ users'[req[p].user].exists
            /\ users'[req[p].user].tokens = 1
            /\ users'[req[p].user].referral_by = None]_vars

SelfReferred(p) ==
    /\ req[p].pc = "StartDone"
    /\ ~req[p].existing_user
    /\ req[p].args = [kind |-> "ref", n |-> req[p].user]

\* C8: self-referral never takes effect: no referral record links a user to
\* itself, no referral_bonus is logged for referring oneself, no account's
\* referral_by is its own id, and an account created by /start ref_<own id>
\* has an empty referral_by, no referral record and caused no referral bonus.
C8_NoSelfReferral ==
    /\ \A i \in DOMAIN referrals :
          referrals[i].referrer_id # referrals[i].referred_id
    /\ \A u \in UserIds : users[u].exists => users[u].referral_by # u
    /\ \A i \in DOMAIN token_transactions :
          token_transactions[i].transaction_type = "referral_bonus"
          => token_transactions[i].description # <<"Referred user", token_transactions[i].user_id>>
    /\ \A p \in Procs : SelfReferred(p) =>
          /\ users[req[p].user].referral_by = None
          /\ \A i \in DOMAIN referrals : referrals[i].referred_id # req[p].user
          /\ \A i \in DOMAIN token_transactions :
                token_transactions[i].description # <<"Referred user", req[p].user>>

\* Witness of C8: an account was created by a /start naming itself.
C8_SelfReferralTried ==
    \E p \in Procs : SelfReferred(p) /\ users[req[p].user].exists

C10_SubtractLogsAppliedDelta ==
    [][(/\ admin.pc = "Applying"
        /\ admin.operation = "subtract"
        /\ token_transactions' # token_transactions)
       => \A u \in admin.target_users :
            (users[u].exists /\ admin.amount > users[u].tokens
             /\ users[u].tokens >= 0)
            => /\ users'[u].tokens = 0
               /\ \E i \in DOMAIN token_transactions' :
                     /\ i > Len(token_transactions)
                     /\ token_transactions'[i].user_id = u
                     /\ token_transactions'[i].transaction_type = "bulk_subtract"
                     /\ token_transactions'[i].amount = -users[u].tokens]_vars

\* C11: a redeem's debit commits only when the redemption limiter allows a
\* redemption for that user on that day: no debit commits while the user's
\* counter for the day stands at MAX_REDEMPTIONS_PER_DAY.
C11_DebitGatedByLimiter ==
    [][\A p \in Procs :
          (req[p].pc = "Debiting" /\ req'[p].pc = "Delivering")
          => RedemptionAllowed(user_redemptions[req[p].user], Date(now))]_vars

\* The step in which slot p takes an unlock callback.
UnlockBegins(p) ==
    /\ req[p].pc \in Terminal
    /\ budget' = budget - 1
    /\ req'[p] # req[p]
    /\ req'[p].op \in {"unlock", "InsufficientBalance", "ContentUnavailable"}

LedgerUntouched ==
    /\ users' = users
    /\ token_transactions' = token_transactions
    /\ content' = content

\* C12: an unlock whose account is absent or has tokens <= 0 ends as
\* InsufficientBalance, one whose content item is absent or inactive ends as
\* ContentUnavailable, and in both cases tokens, redemptions, the
\* transaction log and the view counts are exactly as before.
C12_RejectedRedeemChangesNothing ==
    [][\A p \in Procs :
          UnlockBegins(p) =>
            LET user_data == users[req'[p].user]
                c == req'[p].content_id
                low == ~user_data.exists \/ user_data.tokens <= 0
                gone == ~(c \in ContentIds /\ content[c].is_active)
            IN /\ low => /\ req'[p].pc = "Rejected"
                          /\ req'[p].op = "InsufficientBalance"
                          /\ LedgerUntouched
               /\ (~low /\ gone) => /\ req'[p].pc = "Rejected"
                                     /\ req'[p].op = "ContentUnavailable"
                                     /\ LedgerUntouched
               /\ req'[p].pc = "Rejected" => low \/ gone]_vars

\* An unlock was turned away for an account whose balance had reached 0.
C12_RejectedAtZero ==
    \E p \in Procs :
        /\ req[p].pc = "Rejected"
        /\ req[p].op = "InsufficientBalance"
        /\ users[req[p].user].exists
        /\ users[req[p].user].tokens = 0
        /\ users[req[p].user].redemptions > 0

\* The four effects of the debit of slot p, taken in one step.
DebitEffects(p) ==
    LET u == req[p].user
        c == req[p].content_id
        bonus == IF req'[p].loyalty THEN LOYALTY_BONUS ELSE 0
    IN /\ users'[u].exists
       /\ users'[u].tokens = users[u].tokens - 1 + bonus
       /\ users'[u].redemptions = users[u].redemptions + 1
       /\ Len(token_transactions') > Len(token_transactions)
       /\ LET t == token_transactions'[Len(token_transactions) + 1]
          IN /\ t.user_id = u
             /\ t.transaction_type = "redeem"
             /\ t.content_id = c
       /\ content'[c].views = content[c].views + 1

\* C13: the step that ends an unlock's debit either commits all four
\* effects (tokens decremented, redemptions incremented, a redeem
\* transaction with the content id appended, views incremented) or leaves
\* users, the transaction log and the view counts as they were.
C13_DebitAllOrNothing ==
    [][\A p \in Procs :
          (req[p].pc = "Debiting" /\ req'[p].pc # "Debiting")
          => DebitEffects(p) \/ LedgerUntouched]_vars

\* C14: the balance and the redemption count an unlock reports on success
\* are the values stored for the account when its debit committed, whatever
\* ran between the unlock's first read and its debit.
C14_ReportsStoredValues ==
    [][\A p \in Procs :
          (req[p].pc = "Debiting" /\ req'[p].pc = "Delivering")
          => /\ req'[p].updated_tokens = users'[req[p].user].tokens
             /\ req'[p].new_redemptions = users'[req[p].user].redemptions]_vars

\* The step in which a bulk operation returns.
BulkReturns == admin.pc = "Applying" /\ admin'.pc = "Done"

\* The transaction records a step appends.
Appended ==
    {i \in DOMAIN token_transactions' : i > Len(token_transactions)}

\* C15: a bulk operation appends exactly one bulk_add / bulk_subtract /
\* bulk_set transaction for each account it affects, and the count it
\* returns is the number of accounts whose mutation was committed, whatever
\* the operation value.
C15_BulkCountsAppliedMutations ==
    [][BulkReturns =>
          /\ admin'.affected_count = Cardinality(Appended)
          /\ \A i \in Appended :
                /\ token_transactions'[i].transaction_type
                      \in {"bulk_add", "bulk_subtract", "bulk_set"}
                /\ users'[token_transactions'[i].user_id].exists
          /\ \A i, j \in Appended :
                token_transactions'[i].user_id = token_transactions'[j].user_id
                => i = j]_vars

C17_BulkTouchesOnlyMatching ==
    [][BulkReturns =>
          \A u \in UserIds :
            /\ users'[u].redemptions = users[u].redemptions
            /\ (\/ users'[u] # users[u]
                \/ \E i \in Appended : token_transactions'[i].user_id = u)
               => Matches(users[u], admin.user_filter)]_vars

\* The step in which slot p takes a /start update: the slot's record or
\* the limiter's list changes and no other slot moves.
StartBegins(p) ==
    /\ req[p].pc \in Terminal
    /\ budget' = budget - 1
    /\ req'[p] # req[p] \/ user_requests' # user_requests
    /\ \A q \in Procs \ {p} : req'[q] = req[q]
    /\ req'[p].op = "start"

\* The allowed requests of user u made less than 60 seconds before time at.
InWindow(u, at) ==
    {i \in DOMAIN user_requests[u] :
        user_requests[u][i] <= at /\ at - user_requests[u][i] < 60}

\* C18: a request at time T is refused exactly when the user's allowed
\* requests in the 60 seconds up to T number MAX_REQUESTS_PER_MINUTE or
\* more; an allowed request 60 seconds old or older, a day old included,
\* does not count; an allowed request is recorded, a refused one is not.
C18_SlidingWindow ==
    [][\A p \in Procs :
          StartBegins(p) =>
            LET u == req'[p].user
                refused == req'[p].pc = "RateLimited"
            IN /\ refused <=>
                    Cardinality(InWindow(u, now)) >= MAX_REQUESTS_PER_MINUTE
               /\ refused => Len(user_requests'[u]) <= Len(user_requests[u])
               /\ ~refused => /\ user_requests'[u] # <<>>
                              /\ Last(user_requests'[u]) = now]_vars

\* The step in which slot p takes a /redeem update: the slot's record or
\* the limiter's counter changes and no other slot moves.
RedeemBegins(p) ==
    /\ req[p].pc \in Terminal
    /\ budget' = budget - 1
    /\ req'[p] # req[p] \/ user_redemptions' # user_redemptions
    /\ \A q \in Procs \ {p} : req'[q] = req[q]
    /\ req'[p].op = "redeem"

\* The redemptions counted for user u on date d.
Counted(counts, u, d) == IF d \in DOMAIN counts[u] THEN counts[u][d] ELSE 0

\* C19: a redemption check is refused exactly when the user's counter for
\* the current date has reached MAX_REDEMPTIONS_PER_DAY; an allowed check
\* adds one to that counter and a refused one leaves it; the counters of
\* other dates and other users are not touched, so the first check on a
\* later date starts from 0 and is allowed.
C19_DailyCeiling ==
    [][\A p \in Procs :
          RedeemBegins(p) =>
            LET u == req'[p].user
                today == now \div Day
                before == Counted(user_redemptions, u, today)
                refused == req'[p].pc = "RateLimited"
            IN /\ refused <=> before >= MAX_REDEMPTIONS_PER_DAY
               /\ Counted(user_redemptions', u, today) =
                     IF refused THEN before ELSE before + 1
               /\ \A v \in UserIds :
                     \A d \in DOMAIN user_redemptions[v] :
                        (v # u \/ d # today)
                        => Counted(user_redemptions', v, d)
                              = user_redemptions[v][d]
               /\ Counted(user_redemptions', u, today)
                     <= MAX_REDEMPTIONS_PER_DAY]_vars

\* A /redeem of a user whose counter for the day stands at the ceiling was
\* refused.
C19_RefusedAtCeiling ==
    \E p \in Procs :
        /\ req[p].op = "redeem"
        /\ req[p].pc = "RateLimited"
        /\ Counted(user_redemptions, req[p].user, now \div Day)
              = MAX_REDEMPTIONS_PER_DAY

\* C20: every existing account has exactly one welcome_bonus transaction,
\* and no transaction of that user precedes it in the log.
C20_WelcomeBonusFirst ==
    \A u \in UserIds :
        users[u].exists =>
            /\ Cardinality(TxOf(u, "welcome_bonus")) = 1
            /\ \A i \in TxOf(u, "welcome_bonus") :
                  \A j \in DOMAIN token_transactions :
                     token_transactions[j].user_id = u => i <= j

\* The accounts a step removes.
PurgedNow == {u \in UserIds : users[u].exists /\ ~users'[u].exists}

\* C21: a step either appends to the transaction log, leaving every record
\* already in it as it was, or it is the cleanup's delete and removes
\* records of accounts it removes in the same step, and no other record.
C21_LogAppendOnly ==
    [][\/ /\ Len(token_transactions') >= Len(token_transactions)
          /\ SubSeq(token_transactions', 1, Len(token_transactions))
                = token_transactions
       \/ /\ admin.pc = "Deleting"
          /\ admin'.pc = "Done"
          /\ \E gone \in SUBSET PurgedNow :
                token_transactions' =
                   SelectSeq(token_transactions,
                             LAMBDA t : t.user_id \notin gone)]_vars

\* C22: the refund of a redemption whose debit granted a loyalty bonus
\* credits 1 token, takes 1 from redemptions and appends one refund
\* transaction; the loyalty_bonus transaction and every other record stay
\* in the log and the bonus tokens stay on the balance.
C22_LoyaltyStandsOnRefund ==
    [][\A p \in Procs :
          (/\ req[p].pc = "Refunding"
           /\ req'[p].pc = "RefundCommitted"
           /\ req[p].loyalty)
          => LET u == req[p].user
                 n == Len(token_transactions)
             IN /\ users'[u].tokens = users[u].tokens + 1
                /\ users'[u].redemptions = users[u].redemptions - 1
                /\ Len(token_transactions') = n + 1
                /\ SubSeq(token_transactions', 1, n) = token_transactions
                /\ token_transactions'[n + 1].user_id = u
                /\ token_transactions'[n + 1].transaction_type = "refund"
                /\ token_transactions'[n + 1].amount = 1
                /\ \E i \in 1..n :
                      /\ token_transactions'[i].user_id = u
                      /\ token_transactions'[i].transaction_type = "loyalty_bonus"
                      /\ token_transactions'[i].amount = LOYALTY_BONUS]_vars

\* A redemption that was granted the bonus has been refunded, and the
\* bonus record is in the log behind the refund.
C22_BonusKeptAfterRefund ==
    \E p \in Procs :
        /\ req[p].pc = "RefundCommitted"
        /\ req[p].loyalty
        /\ TxOf(req[p].user, "loyalty_bonus") # {}
        /\ Last(token_transactions).transaction_type = "refund"
        /\ Last(token_transactions).user_id = req[p].user

\* C23: the debit of an unlock credits LOYALTY_BONUS and appends a
\* loyalty_bonus transaction exactly when the redemptions value stored by
\* that debit is a multiple of LOYALTY_THRESHOLD.
C23_LoyaltyOnStoredCount ==
    [][\A p \in Procs :
          (req[p].pc = "Debiting" /\ req'[p].pc = "Delivering")
          => LET u == req[p].user
                 due == users'[u].redemptions % LOYALTY_THRESHOLD = 0
                 logged == \E i \in Appended :
                              /\ token_transactions'[i].user_id = u
                              /\ token_transactions'[i].transaction_type
                                    = "loyalty_bonus"
             IN /\ logged <=> due
                /\ users'[u].tokens =
                      users[u].tokens - 1 + (IF due THEN LOYALTY_BONUS ELSE 0)]_vars

\* C24: a refund is committed only for a redemption whose content was not
\* delivered: no invocation whose send call succeeded ends refunded.
C24_RefundOnlyWhenUndelivered ==
    \A p \in Procs : req[p].pc = "RefundCommitted" => ~req[p].delivered

\* C25: every refund record has an earlier redeem record of the same user
\* with the same content_id field.
C25_RefundNamesContent ==
    \A i \in DOMAIN token_transactions :
        token_transactions[i].transaction_type = "refund"
        => \E j \in 1..(i - 1) :
              /\ token_transactions[j].transaction_type = "redeem"
              /\ token_transactions[j].user_id = token_transactions[i].user_id
              /\ token_transactions[j].content_id
                    = token_transactions[i].content_id

\* The redeem records of content item c, and the refund records naming it.
RedeemsOf(c) ==
    {i \in DOMAIN token_transactions :
        /\ token_transactions[i].transaction_type = "redeem"
        /\ token_transactions[i].content_id = c}

RefundsOf(c) ==
    {i \in DOMAIN token_transactions :
        /\ token_transactions[i].transaction_type = "refund"
        /\ token_transactions[i].description = <<"Failed to send content", c>>}

\* C26: when the only invocation begun is an unlock that was not delivered
\* and was refunded, and nothing is in flight, the item's views is the
\* number of its redemptions that were not refunded.
C26_ViewsCountDelivered ==
    \A p \in Procs :
        (RefundedAlone(p) /\ ~req[p].delivered)
        => LET c == req[p].content_id
           IN content[c].views
                 = Cardinality(RedeemsOf(c)) - Cardinality(RefundsOf(c))

\* No account is the referred party of two referral records.
AtMostOneReferrer ==
    \A i, j \in DOMAIN referrals :
        referrals[i].referred_id = referrals[j].referred_id => i = j

\* C27: the write step of a /start sent by an account that exists inserts no
\* referral record, appends no transaction, credits no bonus and changes no
\* account's referral_by (only the sender's last_activity may change); and
\* after every step each account is the referred party of at most one
\* referral record.
C27_ReferrerFixedAtCreation ==
    [][/\ \A p \in Procs :
             (/\ req[p].pc = "Creating"
              /\ req'[p].pc # "Creating"
              /\ (req[p].existing_user \/ users[req[p].user].exists))
             => /\ referrals' = referrals
                /\ token_transactions' = token_transactions
                /\ \A v \in UserIds :
                      /\ users'[v].exists = users[v].exists
                      /\ users'[v].tokens = users[v].tokens
                      /\ users'[v].redemptions = users[v].redemptions
                      /\ users'[v].referral_by = users[v].referral_by
       /\ AtMostOneReferrer']_vars

\* An existing account sent /start with a referral argument naming another
\* user, and the handler finished.
C27_ExistingSentReferral ==
    \E p \in Procs :
        /\ req[p].pc = "StartDone"
        /\ req[p].existing_user
        /\ req[p].referral_by # None
        /\ users[req[p].user].exists

\* C28: the cleanup removes no account that sent /redeem on the current
\* date (the limiter's counter for the day records the command), the
\* cleanup's days being at least 1.
C28_PurgeRespectsActivity ==
    [][\A u \in PurgedNow :
          admin.days >= 1 => Counted(user_redemptions, u, now \div Day) = 0]_vars

\* The records of user u in a log, in order.
HistoryOf(log, u) == SelectSeq(log, LAMBDA t : t.user_id = u)

\* C29: the cleanup's delete leaves the transaction history of every account
\* that still exists after it complete, and the count it returns is the
\* number of accounts it removed.
C29_PurgeWholeAccounts ==
    [][(admin.pc = "Deleting" /\ admin'.pc = "Done")
       => /\ \A u \in UserIds :
                users'[u].exists
                => HistoryOf(token_transactions', u)
                      = HistoryOf(token_transactions, u)
          /\ admin'.affected_count = Cardinality(PurgedNow)]_vars

\* The step is slot p's committed debit, or its refund, for user u.
DebitStep(p, u) ==
    req[p].pc = "Debiting" /\ req'[p].debited /\ req[p].user = u

RefundStep(p, u) ==
    req[p].pc = "Refunding" /\ req'[p].pc = "RefundCommitted" /\ req[p].user = u

\* C30: no account's redemption count is negative; a committed debit raises
\* the count of its account by 1, a refund lowers it by 1 and follows a
\* committed debit of the same invocation, which ends with it; every other
\* step leaves the count of an account that exists before and after it
\* unchanged.
C30_RedemptionsLedger ==
    [][\A u \in UserIds :
          /\ users'[u].exists => users'[u].redemptions >= 0
          /\ (users[u].exists /\ users'[u].exists)
             => users'[u].redemptions - users[u].redemptions
                   = (IF \E p \in Procs : DebitStep(p, u) THEN 1 ELSE 0)
                     - (IF \E p \in Procs : RefundStep(p, u) THEN 1 ELSE 0)
          /\ \A p \in Procs :
                RefundStep(p, u)
                => req[p].debited /\ req'[p].pc \in Terminal]_vars

\* A refund has been committed and its account is back at no redemptions.
C30_RefundedToZero ==
    \E p \in Procs :
        /\ req[p].pc = "RefundCommitted"
        /\ users[req[p].user].exists
        /\ users[req[p].user].redemptions = 0

\* C31: in every step the accounts whose tokens change are the users for whom
\* the step appends a transaction record.
C31_TokensPairedWithRecord ==
    [][\A u \in UserIds :
          (users'[u].tokens # users[u].tokens)
          <=> (\E i \in Appended : token_transactions'[i].user_id = u)]_vars

\* C32: no account holds more than MAX_TOKENS_PER_USER tokens.
C32_TokensWithinCap ==
    \A u \in UserIds :
        users[u].exists => users[u].tokens <= MAX_TOKENS_PER_USER
====
